---- MODULE Spec2Model ----
(***************************************************************************)
(* PyDesc contact maps (pydesc/contactmap.py) and the contact-criterion    *)
(* algebra (pydesc/contacts/base.py) as state machines.                    *)
(*                                                                         *)
(*   Spec      one consumer driving a ContactMap (sequential calls)        *)
(*   SpecConc  several consumers reading one ContactMap, statements of     *)
(*             the accessor interleaved                                    *)
(*   SpecCrit  ContactCriterion.calculate_contacts of leaf criteria and    *)
(*             of the NOT / AND / OR / XOR combinators                     *)
(***************************************************************************)
EXTENDS Integers, Sequences, FiniteSets, TLC

(* ------------------------------ bounds -------------------------------- *)
\* number of mers of the structure (inds 1..NMers)
NMers == 3
\* last frame of the linked trajectory (frames 0..MaxFrame)
MaxFrame == 1
\* rc-distance up to which the distance criteria report a sure contact
SureDist == 1
\* the max_rc_dist a criterion declares, when it declares one
MaxRcDist == 2

\* Python's None, where the other values of the attribute are integers
\* (ContactMap.frame, Structure.frame, criterion.max_rc_dist)
None == -1

VARIABLES
    str_frame,    \* substructure.frame: None, or the current frame number
    frame,        \* ContactMap.frame, the cached frame marker
    contacts,     \* ContactMap._contacts: NoneTable, or ind -> inner dict
    sstr1,        \* ContactMap._sstr1._monomers, as the list of inds
    sstr2,        \* ContactMap._sstr2: NoneStructure, or the list of inds
    criterion,    \* which pair scoring the criterion's is_in_contact does
    max_rc_dist,  \* getattr(criterion, "max_rc_dist", None)
    op,           \* the call made last
    args,         \* its arguments
    ret,          \* what it returned or raised: [exc, value]
    was_stale,    \* whether ContactMap.frame differed from Structure.frame
                  \* when the call was made
    recomputed,   \* whether the call ran calculate_contacts
    invoked,      \* pairs <<m1, m2>> the last calculate_contacts scored
    calc_frame,   \* Structure.frame at the last calculate_contacts
    structure_obj,\* the structure a criterion is evaluated on: its inds
    crit,         \* the criterion object evaluated last
    result,       \* what its calculate_contacts gave: [exc, matrix]
    pc,           \* per consumer: where it stands in the contacts property
    local_frame,  \* per consumer: its local str_frame
    todo,         \* per consumer: the index pairs its loop has yet to score
    got,          \* per consumer: the table the property returned to it
    atoms,        \* MartiniResidue.atoms: the names of the residue's atoms
    pdb_mers_list,\* the residues a NumberConverter was built from
    converter     \* the NumberConverter: [dict_ind_to_pdb, dict_pdb_to_ind]

mapVars == <<str_frame, frame, contacts, sstr1, sstr2, criterion, max_rc_dist>>
obsVars == <<op, args, ret, was_stale, recomputed, invoked, calc_frame>>
critVars == <<structure_obj, crit, result>>
concVars == <<pc, local_frame, todo, got>>
libVars == <<atoms, pdb_mers_list, converter>>
vars == <<mapVars, obsVars, critVars, concVars, libVars>>

(* --------------------------- the structure ---------------------------- *)
Mers == 1 .. NMers
\* structure._monomers: the mers in structure order, each named by its ind
Monomers == [i \in 1 .. NMers |-> i]
Frames == {None} \cup (0 .. MaxFrame)

\* self._contacts = None
NoneTable == << >>
\* self._sstr2 = None (a list of inds never holds None)
NoneStructure == <<None>>

Abs(x) == IF x < 0 THEN 0 - x ELSE x

\* the representative center of mer m in frame f (None: the static
\* coordinates of the loaded file), on a line
RcCoord(f, m) == (m * (f + 2)) % 7

\* a selection, as the set of inds it picks: Everything, all but the last
\* mer, all but the first, the first mer alone, nothing
Everything == Mers
Selections == {Everything, 1 .. (NMers - 1), 2 .. NMers, {1}, {}}

\* selection.create_structure(structure_obj): the picked mers, in the
\* structure's order
create_structure(sel, structure) ==
    LET Picked(m) == m \in sel
    IN  SelectSeq(structure, Picked)

\* ContactMap.__init__: _sstr2 is None when both selections list the same inds
init_sstr2(s1, s2) == IF s2 = s1 THEN NoneStructure ELSE s2

(* ------------------------- the pair scoring --------------------------- *)
Ok(v) == [exc |-> "none", value |-> v]
Raise(e) == [exc |-> e, value |-> 0]

IsIon(m) == m % 2 = 0

Criteria == {"rc", "always", "ordered", "typed"}

\* criterion.is_in_contact(monomer_1, monomer_2, rcdist=d)
\*   rc       2 up to SureDist, 1 up to MaxRcDist, else 0
\*   always   2 for every pair (no spatial cutoff of its own)
\*   ordered  depends on the order of its arguments
\*   typed    for residues only: WrongMonomerType when given an ion
\*   close    a distance criterion of cutoff SureDist - 1: 2 up to it, else 0
\*   fragile  fails with an error of its own (not WrongMonomerType) for a
\*            pair at MaxRcDist or farther
is_in_contact(kind, m1, m2, d) ==
    CASE kind = "rc" ->
             Ok(IF d <= SureDist THEN 2 ELSE IF d <= MaxRcDist THEN 1 ELSE 0)
      [] kind = "close" -> Ok(IF d <= SureDist - 1 THEN 2 ELSE 0)
      [] kind = "always" -> Ok(2)
      [] kind = "fragile" ->
             IF d >= MaxRcDist THEN Raise("ZeroDivisionError") ELSE Ok(2)
      [] kind = "ordered" -> Ok(IF m1 < m2 THEN 2 ELSE 1)
      [] OTHER ->
             IF IsIon(m1) \/ IsIon(m2)
             THEN Raise("WrongMonomerType")
             ELSE Ok(IF d <= SureDist THEN 2 ELSE 0)

(* ------------------------------ dicts --------------------------------- *)
\* an inner dict: the sequence of its <<key, value>> items, in insertion order
DictHas(d, k) == \E n \in 1 .. Len(d) : d[n][1] = k
DictGet(d, k) == d[CHOOSE n \in 1 .. Len(d) : d[n][1] = k][2]
DictSet(d, k, v) ==
    IF DictHas(d, k)
    THEN [n \in 1 .. Len(d) |-> IF d[n][1] = k THEN <<k, v>> ELSE d[n]]
    ELSE Append(d, <<k, v>>)

\* self._contacts[a][b] = v
TableSet(t, a, b, v) == [t EXCEPT ![a] = DictSet(t[a], b, v)]

(* ------------------------ calculate_contacts -------------------------- *)
\* calculate_rcdist: points2 falls back to points1 when _sstr2 is None
points2_of(s1, s2) == IF s2 = NoneStructure THEN s1 ELSE s2

\* scipy's cdist refuses an empty list of points
cdist_fails(s1, s2) == Len(s1) = 0 \/ Len(points2_of(s1, s2)) = 0

\* self._rcdist[i][j], for the coordinates of frame f
rcdist(f, s1, s2, i, j) == Abs(RcCoord(f, s1[i]) - RcCoord(f, points2_of(s1, s2)[j]))

\* all index pairs of an n1 x n2 matrix in row-major order (np.where)
AllPairs(n1, n2) ==
    [k \in 1 .. (n1 * n2) |-> <<((k - 1) \div n2) + 1, ((k - 1) % n2) + 1>>]

\* the pre-filter with a strict comparison
within_max_rc_dist_strict(d, D) == d < D

\* whether the pre-filter keeps a pair at rc-distance d
within_max_rc_dist(d, D) == d <= D

\* the candidate index pairs of the pre-filtered branch, in loop order
prefiltered_indexes(f, s1, s2, D) ==
    LET p2 == points2_of(s1, s2)
        Near(p) == within_max_rc_dist(rcdist(f, s1, s2, p[1], p[2]), D)
        Upper(p) == p[1] < p[2]
        indexes == SelectSeq(AllPairs(Len(s1), Len(p2)), Near)
    IN  IF s2 = NoneStructure THEN SelectSeq(indexes, Upper) ELSE indexes

\* truth value of a structure object: None and an empty structure are false
Truthy(s) == s # NoneStructure /\ Len(s) > 0

\* the index pairs of the full-evaluation branch, in loop order
full_indexes(s1, s2) ==
    LET Upper(p) == p[1] < p[2]
    IN  IF Truthy(s2)
        THEN AllPairs(Len(s1), Len(s2))
        ELSE SelectSeq(AllPairs(Len(s1), Len(s1)), Upper)

\* the loops without the mirrored entry
add_reverse_never(s2, D) == FALSE

\* the loops with a mirrored entry for every positive score
add_reverse_always(s2, D) == TRUE

\* whether a positive score is also stored as the mirrored entry
add_reverse(s2, D) == IF D # None THEN s2 = NoneStructure ELSE ~Truthy(s2)

\* a loop body that records every score
is_positive_any(value) == TRUE

\* if value > 0
is_positive(value) == value > 0

\* the body of both loops: score one pair and record a positive score
score_pair(st, kind, m1, m2, d, add_rev) ==
    LET r == is_in_contact(kind, m1, m2, d)
        inv == st.invoked \cup {<<m1, m2>>}
        t1 == TableSet(st.contacts, m1, m2, r.value)
    IN  IF r.exc = "WrongMonomerType"
        THEN [st EXCEPT !.invoked = inv]
        ELSE IF r.exc # "none"
        THEN [st EXCEPT !.invoked = inv, !.exc = r.exc]
        ELSE IF is_positive(r.value)
        THEN [st EXCEPT !.invoked = inv,
                        !.contacts = IF add_rev
                                     THEN TableSet(t1, m2, m1, r.value)
                                     ELSE t1]
        ELSE [st EXCEPT !.invoked = inv]

RECURSIVE run_pairs(_, _, _, _, _, _, _, _)
run_pairs(st, pairs, k, kind, f, s1, s2, D) ==
    IF k > Len(pairs) \/ st.exc # "none"
    THEN st
    ELSE LET i == pairs[k][1]
             j == pairs[k][2]
             l2 == IF D # None
                   THEN points2_of(s1, s2)
                   ELSE IF Truthy(s2) THEN s2 ELSE s1
         IN  run_pairs(score_pair(st, kind, s1[i], l2[j],
                                  rcdist(f, s1, s2, i, j), add_reverse(s2, D)),
                       pairs, k + 1, kind, f, s1, s2, D)

\* a ContactsAlternative of contacts/base.py given to the map as its
\* criterion (the default of ContactMap.__init__ is one): the class and its
\* bases define calculate_contacts only, no is_in_contact and no
\* get_validating_subcriterion
MapCriteria == Criteria \cup {"alternative"}

\* its sub-criteria, in construction order
alternative_criteria == <<"typed", "rc">>

\* iic = self._contact_criterion.is_in_contact: whether the attribute exists
has_is_in_contact(kind) == kind # "alternative"

\* self._contacts = dict((monomer_obj.ind, {}) for monomer_obj in substructure)
empty_contacts == [m \in Mers |-> << >>]

\* a computation that fills the table it finds instead of a new one
calculate_contacts_onto_old(old, kind, f, s1, s2, D) ==
    IF cdist_fails(s1, s2)
    THEN [exc |-> "ValueError", contacts |-> old, invoked |-> {}]
    ELSE IF ~has_is_in_contact(kind)
    THEN [exc |-> "AttributeError", contacts |-> old, invoked |-> {}]
    ELSE run_pairs([exc |-> "none",
                    contacts |-> IF old = NoneTable THEN empty_contacts ELSE old,
                    invoked |-> {}],
                   IF D # None
                   THEN prefiltered_indexes(f, s1, s2, D)
                   ELSE full_indexes(s1, s2),
                   1, kind, f, s1, s2, D)

\* ContactMap.calculate_contacts on table old, for the coordinates of frame f:
\* [exc, contacts, invoked]
calculate_contacts(old, kind, f, s1, s2, D) ==
    IF cdist_fails(s1, s2)
    THEN [exc |-> "ValueError", contacts |-> old, invoked |-> {}]
    ELSE IF ~has_is_in_contact(kind)
    THEN [exc |-> "AttributeError", contacts |-> old, invoked |-> {}]
    ELSE run_pairs([exc |-> "none", contacts |-> empty_contacts, invoked |-> {}],
                   IF D # None
                   THEN prefiltered_indexes(f, s1, s2, D)
                   ELSE full_indexes(s1, s2),
                   1, kind, f, s1, s2, D)

(* ---------------------------- the accessor ---------------------------- *)
\* the test of a cache that is filled once and never invalidated
is_stale_unset_only(cached, current) == cached = None /\ current # None

\* a property that computes on every access
is_stale_always(cached, current) == TRUE

\* the test of the contacts property: self.frame != str_frame
is_stale(cached, current) == cached # current

\* ContactMap.contacts: [exc, contacts, frame, invoked, calc_frame, recomputed]
contacts_property ==
    IF is_stale(frame, str_frame)
    THEN CHOOSE r \in
             {[exc |-> c.exc, contacts |-> c.contacts,
               frame |-> IF c.exc = "none" THEN str_frame ELSE frame,
               invoked |-> c.invoked, calc_frame |-> str_frame,
               recomputed |-> TRUE] :
              c \in {calculate_contacts(contacts, criterion, str_frame,
                                        sstr1, sstr2, max_rc_dist)}} : TRUE
    ELSE [exc |-> "none", contacts |-> contacts, frame |-> frame,
          invoked |-> invoked, calc_frame |-> calc_frame,
          recomputed |-> FALSE]

\* the (j, v) items of an inner dict as (ind, j, v) triples
items_of(ind, d) == [n \in 1 .. Len(d) |-> <<ind, d[n][1], d[n][2]>>]

\* get_monomer_contacts(ind, internal) on the table the accessor hands out
get_monomer_contacts(c, ind, internal) ==
    IF c.exc # "none" THEN Raise(c.exc)
    ELSE IF c.contacts = NoneTable THEN Raise("TypeError")
    ELSE IF ind \notin DOMAIN c.contacts THEN Raise("KeyError")
    ELSE IF internal THEN Ok(c.contacts[ind])
    ELSE Ok(items_of(ind, c.contacts[ind]))

\* a get_contact_value that lets the KeyError of an absent entry out
get_contact_value_strict(c, ind_1, ind_2) ==
    LET contacts_1 == get_monomer_contacts(c, ind_1, TRUE)
    IN  IF contacts_1.exc # "none" THEN contacts_1
        ELSE IF DictHas(contacts_1.value, ind_2)
        THEN Ok(DictGet(contacts_1.value, ind_2))
        ELSE Raise("KeyError")

\* get_contact_value(ind_1, ind_2): the stored score, 0 on a KeyError
get_contact_value(c, ind_1, ind_2) ==
    LET contacts_1 == get_monomer_contacts(c, ind_1, TRUE)
    IN  IF contacts_1.exc # "none" THEN contacts_1
        ELSE IF DictHas(contacts_1.value, ind_2)
        THEN Ok(DictGet(contacts_1.value, ind_2))
        ELSE Ok(0)

RECURSIVE items_from(_, _)
\* [(i, j, v) for i, cs in t.items() for j, v in cs.items()], from key k on
items_from(t, k) ==
    IF k > NMers THEN << >> ELSE items_of(k, t[k]) \o items_from(t, k + 1)

\* ContactMap.__iter__: reads _contacts, not the contacts property
iter_contacts(t) ==
    IF t = NoneTable THEN Raise("AttributeError") ELSE Ok(items_from(t, 1))


\* mer.pid: the PDB id of the mer with ind m (chain A, number m, no
\* insertion code)
pid(m) == <<"A", m, "None">>

\* the line "%s\t%s\t%i\n" % (str(m1.pid), str(m2.pid), value): its three
\* tab-separated fields
dump_line(entry) == <<pid(entry[1]), pid(entry[2]), entry[3]>>

\* ContactMap.dump(fobj) on the table c the accessor hands out: one line
\* per key k2 of contacts[k1], for every key k1; `with fobj` closes the
\* sink on the way out
dump(c) ==
    IF c.exc # "none" THEN Raise(c.exc)
    ELSE IF c.contacts = NoneTable THEN Raise("TypeError")
    ELSE Ok([lines |-> [n \in 1 .. Len(items_from(c.contacts, 1)) |->
                           dump_line(items_from(c.contacts, 1)[n])],
             closed |-> TRUE])

(* ------------------------- mer references ----------------------------- *)
\* a reference to a mer, as the accessors take it: a PyDesc ind (an int), a
\* mer object, or a PDB id (chain, number, insertion code)
IndRef(m) == <<"ind", "", m, "">>
MerRef(m) == <<"mer", "", m, "">>
PdbRef(chain, number, icode) == <<"pdb", chain, number, icode>>

\* NumberConverter.dict_pdb_to_ind: mer i of chain A has PDB number i and no
\* insertion code
dict_pdb_to_ind == [id \in {<<"A", m, "None">> : m \in Mers} |-> id[2]]

\* self.dict_pdb_to_ind[pdb_id]
pdb_lookup(pdb_id) ==
    IF pdb_id \in DOMAIN dict_pdb_to_ind
    THEN Ok(dict_pdb_to_ind[pdb_id])
    ELSE Raise("KeyError")

\* a converter that answers an unknown id with None
get_ind_or_none(pdb_id) ==
    IF pdb_id \in DOMAIN dict_pdb_to_ind
    THEN Ok(dict_pdb_to_ind[pdb_id])
    ELSE Ok(None)

\* NumberConverter.get_ind: a second try with ' ' and None exchanged as the
\* insertion code, else KeyError
get_ind(pdb_id) ==
    IF pdb_id \in DOMAIN dict_pdb_to_ind
    THEN Ok(dict_pdb_to_ind[pdb_id])
    ELSE IF pdb_id[3] = "None"
    THEN pdb_lookup(<<pdb_id[1], pdb_id[2], " ">>)
    ELSE IF pdb_id[3] = " "
    THEN pdb_lookup(<<pdb_id[1], pdb_id[2], "None">>)
    ELSE Raise("KeyError")

\* ContactMap._convert_to_ind (raw_numbering = False): an int as it is, the
\* ind of a mer object, else the converter's answer
convert_to_ind(monomer_id) ==
    IF monomer_id[1] \in {"ind", "mer"}
    THEN Ok(monomer_id[3])
    ELSE get_ind(<<monomer_id[2], monomer_id[3], monomer_id[4]>>)

\* get_contact_value(monomer_id_1, monomer_id_2) on the table c the accessor
\* hands out: the first reference is converted before the accessor is read,
\* the second one after contacts[ind_1] was taken
get_contact_value_of(c, monomer_id_1, monomer_id_2) ==
    LET ind_1 == convert_to_ind(monomer_id_1)
        ind_2 == convert_to_ind(monomer_id_2)
    IN  IF ind_1.exc # "none" THEN Raise(ind_1.exc)
        ELSE LET contacts_1 == get_monomer_contacts(c, ind_1.value, TRUE)
             IN  IF contacts_1.exc # "none" THEN Raise(contacts_1.exc)
                 ELSE IF ind_2.exc # "none" THEN Raise(ind_2.exc)
                 ELSE get_contact_value(c, ind_1.value, ind_2.value)

\* the None that get_contact_criterion returns
NoCriterion == "None"

\* get_contact_criterion(monomer_id_1, monomer_id_2): None without a
\* contact; else the call of get_validating_subcriterion, which no
\* criterion class defines, ends in the AttributeError handler, which
\* returns the criterion of the map
get_contact_criterion(c, kind, monomer_id_1, monomer_id_2) ==
    LET value == get_contact_value_of(c, monomer_id_1, monomer_id_2)
    IN  IF value.exc # "none" THEN value
        ELSE IF value.value = 0 THEN Ok(NoCriterion)
        ELSE Ok(kind)


(* ----------------- contact criteria (contacts/base.py) ---------------- *)
\* converter.get_max_ind(): the maximum index of the parent numbering, whose
\* inds are 1 .. NMers
get_max_ind == NMers

\* dok_matrix((total_len, total_len)): rows and columns 0 .. total_len - 1,
\* every entry 0
MatrixInds == 0 .. (get_max_ind - 1)
zero_matrix == [i \in MatrixInds |-> [j \in MatrixInds |-> 0]]

\* criterion objects: a leaf scoring pairs by `kind`, NotCriterion around
\* criteria[1], or a combinator of criteria
Leaf(kind) ==
    [type |-> "leaf", kind |-> kind, selection1 |-> Everything,
     selection2 |-> Everything, criteria |-> << >>]

\* ContactCriterion.set_selections
set_selections(c, selection1, selection2) ==
    [c EXCEPT !.selection1 = selection1, !.selection2 = selection2]

\* NotCriterion.__init__: takes over the selections of the wrapped criterion
NotCriterion(c) ==
    [type |-> "not", kind |-> "none", selection1 |-> c.selection1,
     selection2 |-> c.selection2, criteria |-> <<c>>]

RECURSIVE intersect_selections(_, _, _)
intersect_selections(cs, k, first) ==
    IF k > Len(cs)
    THEN IF first THEN cs[1].selection1 ELSE cs[1].selection2
    ELSE (IF first THEN cs[k].selection1 ELSE cs[k].selection2)
             \cap intersect_selections(cs, k + 1, first)

\* a constructor content with a single criterion
combined_contact_of_one(type, cs, selection1, selection2) ==
    IF Len(cs) < 1
    THEN [exc |-> "AttributeError", value |-> Leaf("none")]
    ELSE Ok([type |-> type, kind |-> "none", selection1 |-> selection1,
             selection2 |-> selection2, criteria |-> cs])

\* CombinedContact.__init__: at least two criteria, kept in the given order
combined_contact(type, cs, selection1, selection2) ==
    IF Len(cs) < 2
    THEN [exc |-> "AttributeError", value |-> Leaf("none")]
    ELSE Ok([type |-> type, kind |-> "none", selection1 |-> selection1,
             selection2 |-> selection2, criteria |-> cs])

\* ContactsConjunction.__init__: the selections are those of the sub-criteria
\* intersected
ContactsConjunction(cs) ==
    IF Len(cs) < 2
    THEN combined_contact("and", cs, Everything, Everything)
    ELSE combined_contact("and", cs, intersect_selections(cs, 2, TRUE),
                          intersect_selections(cs, 2, FALSE))

ContactsAlternative(cs) == combined_contact("or", cs, Everything, Everything)

ContactsExclusiveDisjunction(cs) ==
    combined_contact("xor", cs, Everything, Everything)

\* self | other, self & other, self ^ other
criterion_or(self, other) == ContactsAlternative(<<self, other>>).value
criterion_and(self, other) == ContactsConjunction(<<self, other>>).value
criterion_xor(self, other) ==
    ContactsExclusiveDisjunction(<<self, other>>).value

\* a leaf's _calculate_contact(mer1, mer2), on the coordinates of the
\* loaded file
calculate_contact(kind, mer1, mer2) ==
    is_in_contact(kind, mer1, mer2,
                  Abs(RcCoord(None, mer1) - RcCoord(None, mer2)))

\* matrix[mer1.ind, mer2.ind] = value
matrix_set(st, i, j, value) ==
    IF i \notin MatrixInds \/ j \notin MatrixInds
    THEN [st EXCEPT !.exc = "IndexError"]
    ELSE [st EXCEPT !.matrix[i][j] = value]

\* the body of the loops of _fill_contact_matrix
fill_pair(st, kind, mer1, mer2) ==
    LET value == calculate_contact(kind, mer1, mer2)
    IN  IF value.exc # "none"
        THEN [st EXCEPT !.exc = value.exc]
        ELSE matrix_set(st, mer1, mer2, value.value)

RECURSIVE fill_from(_, _, _, _, _, _)
fill_from(st, pairs, k, kind, mers1, mers2) ==
    IF k > Len(pairs) \/ st.exc # "none"
    THEN st
    ELSE fill_from(fill_pair(st, kind, mers1[pairs[k][1]], mers2[pairs[k][2]]),
                   pairs, k + 1, kind, mers1, mers2)

\* ContactCriterion._fill_contact_matrix: for mer1 in mers1: for mer2 in mers2
fill_contact_matrix(kind, mers1, mers2, matrix) ==
    fill_from([exc |-> "none", matrix |-> matrix],
              AllPairs(Len(mers1), Len(mers2)), 1, kind, mers1, mers2)

\* ContactCriterion.calculate_contacts of a leaf
leaf_calculate_contacts(c, structure) ==
    fill_contact_matrix(c.kind, create_structure(c.selection1, structure),
                        create_structure(c.selection2, structure), zero_matrix)

Min(a, b) == IF a < b THEN a ELSE b
Max(a, b) == IF a < b THEN b ELSE a

\* the conjunction taking the larger of two scores
minimum_as_maximum(m1, m2) ==
    [i \in MatrixInds |-> [j \in MatrixInds |-> Max(m1[i][j], m2[i][j])]]

\* contact_map.minimum(new_map), contact_map.maximum(new_map)
minimum(m1, m2) ==
    [i \in MatrixInds |-> [j \in MatrixInds |-> Min(m1[i][j], m2[i][j])]]

\* the alternative taking the smaller of two scores
maximum_as_minimum(m1, m2) ==
    [i \in MatrixInds |-> [j \in MatrixInds |-> Min(m1[i][j], m2[i][j])]]

maximum(m1, m2) ==
    [i \in MatrixInds |-> [j \in MatrixInds |-> Max(m1[i][j], m2[i][j])]]

\* a negation that hands the wrapped criterion's matrix on as it is
negative_unchanged(m) == m

\* a negation that swaps sure and none and drops the uncertain score
negative_two_valued(m) ==
    [i \in MatrixInds |-> [j \in MatrixInds |-> IF m[i][j] = 0 THEN 2 ELSE 0]]

\* (contact_map.todense().astype(int8) - 1) * -1 + 1
negative(m) ==
    [i \in MatrixInds |-> [j \in MatrixInds |-> ((m[i][j] - 1) * (0 - 1)) + 1]]

\* (new_map == v).astype(uint8), added to a uint8 count
count_equal(count, m, v) ==
    [i \in MatrixInds |-> [j \in MatrixInds |->
        (count[i][j] + (IF m[i][j] = v THEN 1 ELSE 0)) % 256]]

\* an exclusive disjunction scoring 2 as soon as some sub-criterion scored 2
xor_matrix_any_two(count_ones, count_twos) ==
    [i \in MatrixInds |-> [j \in MatrixInds |->
        IF count_ones[i][j] # 0 THEN 1
        ELSE IF count_twos[i][j] >= 1 THEN 2 ELSE 0]]

\* contact_map[count_twos == 1] = 2, then contact_map[count_ones != 0] = 1
xor_matrix(count_ones, count_twos) ==
    [i \in MatrixInds |-> [j \in MatrixInds |->
        IF count_ones[i][j] # 0 THEN 1
        ELSE IF count_twos[i][j] = 1 THEN 2 ELSE 0]]

RECURSIVE criterion_calculate_contacts(_, _)
RECURSIVE combine_from(_, _, _, _, _)

\* the loop `for criterion in self.criteria[1:]` of a combinator: acc holds
\* the contact_map (and the two counts of the exclusive disjunction) so far
combine_from(type, cs, k, acc, structure) ==
    IF k > Len(cs) \/ acc.exc # "none"
    THEN acc
    ELSE LET new_map == criterion_calculate_contacts(cs[k], structure)
         IN  IF new_map.exc # "none"
             THEN [acc EXCEPT !.exc = new_map.exc]
             ELSE combine_from(type, cs, k + 1,
                     [exc |-> "none",
                      matrix |-> IF type = "and"
                                 THEN minimum(acc.matrix, new_map.matrix)
                                 ELSE IF type = "or"
                                 THEN maximum(acc.matrix, new_map.matrix)
                                 ELSE new_map.matrix,
                      ones |-> count_equal(acc.ones, new_map.matrix, 1),
                      twos |-> count_equal(acc.twos, new_map.matrix, 2)],
                     structure)

\* calculate_contacts(structure_obj) of any criterion: [exc, matrix]
criterion_calculate_contacts(c, structure) ==
    IF c.type = "leaf"
    THEN leaf_calculate_contacts(c, structure)
    ELSE LET first == criterion_calculate_contacts(c.criteria[1], structure)
             rest == combine_from(c.type, c.criteria, 2,
                         [exc |-> "none", matrix |-> first.matrix,
                          ones |-> count_equal(zero_matrix, first.matrix, 1),
                          twos |-> count_equal(zero_matrix, first.matrix, 2)],
                         structure)
         IN  IF first.exc # "none"
             THEN first
             ELSE IF c.type = "not"
             THEN [exc |-> "none", matrix |-> negative(first.matrix)]
             ELSE IF rest.exc # "none"
             THEN [exc |-> rest.exc, matrix |-> rest.matrix]
             ELSE IF c.type = "xor"
             THEN [exc |-> "none", matrix |-> xor_matrix(rest.ones, rest.twos)]
             ELSE [exc |-> "none", matrix |-> rest.matrix]

(* ------------------- one consumer of a ContactMap --------------------- *)
\* number of consumers reading one map at the same time
NConsumers == 2
\* most sub-criteria given to a combinator
MaxCriteria == 3

Consumers == 1 .. NConsumers

cfgVars == <<sstr1, sstr2, criterion, max_rc_dist>>

\* ContactMap.__init__ for some criterion and selections
InitMap ==
    /\ frame = None
    /\ contacts = NoneTable
    /\ \E sel1 \in Selections, sel2 \in Selections :
         /\ sstr1 = create_structure(sel1, Monomers)
         /\ sstr2 = init_sstr2(create_structure(sel1, Monomers),
                               create_structure(sel2, Monomers))
    /\ criterion \in Criteria
    /\ max_rc_dist \in {None, MaxRcDist}

(* ------------- MartiniResidue (chemistry/martini.py) ------------------ *)
MaxBeads == 5

\* atom names: the backbone bead BB and the side-chain beads SC<n>
BB == <<"BB", 0>>
\* f"SC{n}"
SC(n) == <<"SC", n>>

\* self.atoms[name]: the atom of that name (named by it), else KeyError
atom_of(self_atoms, name) ==
    IF name \in self_atoms THEN Ok(name) ELSE Raise("KeyError")

\* a last_cs that counts the backbone bead as a side-chain bead
last_cs_of_len(self_atoms) ==
    LET self_len == Cardinality(self_atoms)
    IN  IF SC(self_len) \in self_atoms
        THEN atom_of(self_atoms, SC(self_len))
        ELSE atom_of(self_atoms, BB)

\* MartiniResidue.last_cs
last_cs(self_atoms) ==
    LET self_len == Cardinality(self_atoms)
    IN  IF SC(self_len - 1) \in self_atoms
        THEN atom_of(self_atoms, SC(self_len - 1))
        ELSE atom_of(self_atoms, BB)

(* ------------- NumberConverter (numberconverter.py) ------------------- *)
MaxResSeq == 2
MaxResidues == 2

\* BioPython residues as (hetero field, chain, number, insertion code): the
\* hetero field is ' ' for a regular residue, 'W' for water, 'H' (H_<name>)
\* for another hetero residue; ' ' is the empty insertion code
Residues == {" ", "H", "W"} \X {"A"} \X (1 .. MaxResSeq) \X {" ", "B"}

\* is_not_water = lambda pdb_residue: pdb_residue.get_id()[0] != "W"
is_not_water(pdb_residue) == pdb_residue[1] # "W"

\* PDB_id.from_pdb_residue: (chain, number, icode), icode None for ' '
from_pdb_residue(pdb_residue) ==
    <<pdb_residue[2], pdb_residue[3],
      IF pdb_residue[4] = " " THEN "None" ELSE pdb_residue[4]>>

\* models_ids[0]: map(PDB_id.from_pdb_residue, filter(is_not_water, sublist))
models_ids(sublist) ==
    LET kept == SelectSeq(sublist, is_not_water)
    IN  [n \in 1 .. Len(kept) |-> from_pdb_residue(kept[n])]

\* dict(map(tuple, map(reversed, dict_ind_to_pdb.items()))): of two inds with
\* the same id the later item stays
reversed_dict(d) ==
    [id \in {d[i] : i \in DOMAIN d} |->
        CHOOSE i \in DOMAIN d :
            d[i] = id /\ \A j \in DOMAIN d : d[j] = id => j <= i]

\* NumberConverter.__init__ for a single model
NumberConverter(sublist) ==
    [dict_ind_to_pdb |-> models_ids(sublist),
     dict_pdb_to_ind |-> reversed_dict(models_ids(sublist))]

\* NumberConverter.get_pdb_id
get_pdb_id(self, ind) ==
    IF ind \in DOMAIN self.dict_ind_to_pdb
    THEN Ok(self.dict_ind_to_pdb[ind])
    ELSE Raise("KeyError")

\* self.dict_pdb_to_ind[pdb_id] of a converter
converter_lookup(self, pdb_id) ==
    IF pdb_id \in DOMAIN self.dict_pdb_to_ind
    THEN Ok(self.dict_pdb_to_ind[pdb_id])
    ELSE Raise("KeyError")

\* NumberConverter.get_ind of a converter
converter_get_ind(self, pdb_id) ==
    IF pdb_id \in DOMAIN self.dict_pdb_to_ind
    THEN Ok(self.dict_pdb_to_ind[pdb_id])
    ELSE IF pdb_id[3] = "None"
    THEN converter_lookup(self, <<pdb_id[1], pdb_id[2], " ">>)
    ELSE IF pdb_id[3] = " "
    THEN converter_lookup(self, <<pdb_id[1], pdb_id[2], "None">>)
    ELSE Raise("KeyError")

\* the residues of the structure of Monomers: mer i is residue i of chain A
MonomerResidues == [i \in 1 .. NMers |-> <<" ", "A", i, " ">>]

\* no residue of a coarse-grained structure is looked at; the converter is
\* the one of the structure of Monomers
InitLib ==
    /\ atoms = {}
    /\ pdb_mers_list = MonomerResidues
    /\ converter = NumberConverter(MonomerResidues)

\* no call on the map was made yet
InitObs ==
    /\ op = "__init__"
    /\ args = << >>
    /\ ret = Ok(0)
    /\ was_stale = FALSE
    /\ recomputed = FALSE
    /\ invoked = {}
    /\ calc_frame = None

\* no criterion was evaluated
InitCritIdle ==
    /\ structure_obj = Monomers
    /\ crit = Leaf("rc")
    /\ result = [exc |-> "not run", matrix |-> zero_matrix]

\* no consumer is inside the contacts property
InitConsumers ==
    /\ pc = [p \in Consumers |-> "idle"]
    /\ local_frame = [p \in Consumers |-> None]
    /\ todo = [p \in Consumers |-> << >>]
    /\ got = [p \in Consumers |-> NoneTable]

Init ==
    /\ str_frame = None
    /\ InitMap
    /\ InitObs
    /\ InitCritIdle
    /\ InitConsumers
    /\ InitLib

\* a call on the structure: nothing of the map is read or written
StructureCall(name) ==
    /\ op' = name
    /\ args' = << >>
    /\ ret' = Ok(0)
    /\ was_stale' = FALSE
    /\ recomputed' = FALSE
    /\ UNCHANGED <<libVars, frame, contacts, cfgVars, invoked, calc_frame>>
    /\ UNCHANGED <<critVars, concVars>>

\* Structure.link_dcd_file: the structure shows the first frame
LinkTrajectory ==
    /\ str_frame = None
    /\ str_frame' = 0
    /\ StructureCall("link_dcd_file")

\* Structure.next_frame
NextFrame ==
    /\ str_frame # None
    /\ str_frame < MaxFrame
    /\ str_frame' = str_frame + 1
    /\ StructureCall("next_frame")

\* Structure.disconnect_trajectory
DisconnectTrajectory ==
    /\ str_frame # None
    /\ str_frame' = None
    /\ StructureCall("disconnect_trajectory")

\* an explicit ContactMap.calculate_contacts()
CalculateContacts ==
    \E c \in {calculate_contacts(contacts, criterion, str_frame, sstr1, sstr2,
                                max_rc_dist)} :
        /\ contacts' = c.contacts
        /\ invoked' = c.invoked
        /\ calc_frame' = str_frame
        /\ op' = "calculate_contacts"
        /\ args' = << >>
        /\ ret' = IF c.exc = "none" THEN Ok(0) ELSE Raise(c.exc)
        /\ was_stale' = (frame # str_frame)
        /\ recomputed' = TRUE
        /\ UNCHANGED <<libVars, str_frame, frame, cfgVars, critVars, concVars>>

\* ContactMap.get_contact_value(a, b) with two inds
GetContactValue ==
    \E a \in Mers, b \in Mers :
        \E c \in {contacts_property} :
            /\ contacts' = c.contacts
            /\ frame' = c.frame
            /\ invoked' = c.invoked
            /\ calc_frame' = c.calc_frame
            /\ recomputed' = c.recomputed
            /\ op' = "get_contact_value"
            /\ args' = <<a, b>>
            /\ ret' = get_contact_value(c, a, b)
            /\ was_stale' = (frame # str_frame)
            /\ UNCHANGED <<libVars, str_frame, cfgVars, critVars, concVars>>

\* ContactMap.get_monomer_contacts(a) with an ind
GetMonomerContacts ==
    \E a \in Mers :
        \E c \in {contacts_property} :
            /\ contacts' = c.contacts
            /\ frame' = c.frame
            /\ invoked' = c.invoked
            /\ calc_frame' = c.calc_frame
            /\ recomputed' = c.recomputed
            /\ op' = "get_monomer_contacts"
            /\ args' = <<a>>
            /\ ret' = get_monomer_contacts(c, a, FALSE)
            /\ was_stale' = (frame # str_frame)
            /\ UNCHANGED <<libVars, str_frame, cfgVars, critVars, concVars>>

\* ContactMap.dump(fobj)
Dump ==
    \E c \in {contacts_property} :
        /\ contacts' = c.contacts
        /\ frame' = c.frame
        /\ invoked' = c.invoked
        /\ calc_frame' = c.calc_frame
        /\ recomputed' = c.recomputed
        /\ op' = "dump"
        /\ args' = << >>
        /\ ret' = dump(c)
        /\ was_stale' = (frame # str_frame)
        /\ UNCHANGED <<libVars, str_frame, cfgVars, critVars, concVars>>

\* iter(contact_map)
Iter ==
    /\ op' = "__iter__"
    /\ args' = << >>
    /\ ret' = iter_contacts(contacts)
    /\ was_stale' = (frame # str_frame)
    /\ recomputed' = FALSE
    /\ UNCHANGED <<libVars, mapVars, invoked, calc_frame, critVars, concVars>>

Next ==
    \/ LinkTrajectory
    \/ NextFrame
    \/ DisconnectTrajectory
    \/ CalculateContacts
    \/ GetContactValue
    \/ GetMonomerContacts
    \/ Iter
    \/ Dump

Spec == Init /\ [][Next]_vars

(* ----------------- mers given by reference to a map ------------------- *)
\* the references handed to the accessors: inds and mer objects of the
\* structure, an int that is no ind of it, PDB ids of its mers (with None
\* and with ' ' as the empty insertion code) and PDB ids it does not hold
References ==
    {IndRef(1), IndRef(2), IndRef(NMers + 1), MerRef(NMers),
     PdbRef("A", 1, "None"), PdbRef("A", 2, " "),
     PdbRef("A", NMers + 1, "None"), PdbRef("A", NMers + 1, " "),
     PdbRef("A", 1, "B")}

\* the references asked for their criterion: one of each kind, to mers of
\* the structure
MemberReferences ==
    {IndRef(1), MerRef(2), PdbRef("A", NMers, "None")}

\* ContactMap.__init__ with a criterion that scores pairs, or with a
\* ContactsAlternative
InitLookup ==
    /\ str_frame = None
    /\ frame = None
    /\ contacts = NoneTable
    /\ \E sel \in {<<Everything, Everything>>, <<1 .. (NMers - 1), 2 .. NMers>>,
                    <<{}, Everything>>} :
         /\ sstr1 = create_structure(sel[1], Monomers)
         /\ sstr2 = init_sstr2(create_structure(sel[1], Monomers),
                               create_structure(sel[2], Monomers))
    /\ criterion \in MapCriteria
    /\ max_rc_dist \in IF has_is_in_contact(criterion)
                        THEN {None, MaxRcDist} ELSE {None}
    /\ InitObs
    /\ InitCritIdle
    /\ InitConsumers
    /\ InitLib

\* the accessor as the call leaves it: read only once the first reference
\* was converted
AccessAfterConversion(c, monomer_id_1) ==
    IF convert_to_ind(monomer_id_1).exc = "none"
    THEN /\ contacts' = c.contacts
         /\ frame' = c.frame
         /\ invoked' = c.invoked
         /\ calc_frame' = c.calc_frame
         /\ recomputed' = c.recomputed
    ELSE /\ recomputed' = FALSE
         /\ UNCHANGED <<contacts, frame, invoked, calc_frame>>

\* ContactMap.get_contact_value(r1, r2) with any two references
GetContactValueOf ==
    \E c \in {contacts_property} :
        \E r1 \in References, r2 \in References :
            /\ AccessAfterConversion(c, r1)
            /\ op' = "get_contact_value"
            /\ args' = <<r1, r2>>
            /\ ret' = get_contact_value_of(c, r1, r2)
            /\ was_stale' = (frame # str_frame)
            /\ UNCHANGED <<libVars, str_frame, cfgVars, critVars, concVars>>

\* ContactMap.get_contact_criterion(r1, r2) with references to two mers
GetContactCriterion ==
    \E c \in {contacts_property} :
        \E r1 \in MemberReferences, r2 \in MemberReferences :
            /\ AccessAfterConversion(c, r1)
            /\ op' = "get_contact_criterion"
            /\ args' = <<r1, r2>>
            /\ ret' = get_contact_criterion(c, criterion, r1, r2)
            /\ was_stale' = (frame # str_frame)
            /\ UNCHANGED <<libVars, str_frame, cfgVars, critVars, concVars>>

NextLookup ==
    \/ LinkTrajectory
    \/ NextFrame
    \/ CalculateContacts
    \/ GetContactValueOf
    \/ GetContactCriterion

SpecLookup == InitLookup /\ [][NextLookup]_vars

(* --------------- several consumers of one ContactMap ------------------ *)
\* a map built on a structure whose trajectory is linked: the first frame
\* is pending
InitConc ==
    /\ str_frame = 0
    /\ InitMap
    /\ InitObs
    /\ InitCritIdle
    /\ InitConsumers
    /\ InitLib

\* contacts property, `str_frame = self.substructure.frame` and the test
\* `self.frame != str_frame`
ReadFrame(p) ==
    /\ pc[p] = "idle"
    /\ local_frame' = [local_frame EXCEPT ![p] = str_frame]
    /\ got' = [got EXCEPT ![p] = NoneTable]
    /\ pc' = [pc EXCEPT ![p] = IF is_stale(frame, str_frame)
                               THEN "calculate" ELSE "return"]
    /\ UNCHANGED <<libVars, mapVars, obsVars, critVars, todo>>

\* calculate_contacts up to its loop: calculate_rcdist, the fresh
\* self._contacts, the index pairs to score
ResetContacts(p) ==
    /\ pc[p] = "calculate"
    /\ IF cdist_fails(sstr1, sstr2)
       THEN /\ pc' = [pc EXCEPT ![p] = "idle"]
            /\ UNCHANGED <<contacts, todo>>
       ELSE /\ contacts' = empty_contacts
            /\ todo' = [todo EXCEPT ![p] =
                   IF max_rc_dist # None
                   THEN prefiltered_indexes(str_frame, sstr1, sstr2, max_rc_dist)
                   ELSE full_indexes(sstr1, sstr2)]
            /\ pc' = [pc EXCEPT ![p] = "fill"]
    /\ UNCHANGED <<libVars, str_frame, frame, cfgVars, obsVars, critVars, local_frame, got>>

\* one turn of the loop of calculate_contacts, on whatever self._contacts is
ScorePair(p) ==
    /\ pc[p] = "fill"
    /\ todo[p] # << >>
    /\ \E st \in {run_pairs([exc |-> "none", contacts |-> contacts,
                            invoked |-> {}],
                           <<Head(todo[p])>>, 1, criterion, str_frame,
                           sstr1, sstr2, max_rc_dist)} :
           contacts' = st.contacts
    /\ todo' = [todo EXCEPT ![p] = Tail(todo[p])]
    /\ UNCHANGED <<libVars, str_frame, frame, cfgVars, obsVars, critVars, pc, local_frame, got>>

\* the loop is over, calculate_contacts returns: self.frame = str_frame
SetFrame(p) ==
    /\ pc[p] = "fill"
    /\ todo[p] = << >>
    /\ frame' = local_frame[p]
    /\ pc' = [pc EXCEPT ![p] = "return"]
    /\ UNCHANGED <<libVars, str_frame, contacts, cfgVars, obsVars, critVars, local_frame, todo, got>>

\* return self._contacts
ReturnContacts(p) ==
    /\ pc[p] = "return"
    /\ got' = [got EXCEPT ![p] = contacts]
    /\ pc' = [pc EXCEPT ![p] = "idle"]
    /\ UNCHANGED <<libVars, mapVars, obsVars, critVars, local_frame, todo>>

\* Structure.next_frame while no consumer is inside the property; the
\* consumers drop the tables they hold
NextFrameIdle ==
    /\ \A p \in Consumers : pc[p] = "idle"
    /\ str_frame < MaxFrame
    /\ str_frame' = str_frame + 1
    /\ got' = [p \in Consumers |-> NoneTable]
    /\ UNCHANGED <<libVars, frame, contacts, cfgVars, obsVars, critVars, pc, local_frame, todo>>

NextConc ==
    \/ \E p \in Consumers : ReadFrame(p)
    \/ \E p \in Consumers : ResetContacts(p)
    \/ \E p \in Consumers : ScorePair(p)
    \/ \E p \in Consumers : SetFrame(p)
    \/ \E p \in Consumers : ReturnContacts(p)
    \/ NextFrameIdle

SpecConc == InitConc /\ [][NextConc]_vars

(* ------------------------ evaluating criteria -------------------------- *)
\* the criteria handed to NotCriterion and to the combinators
SubCriteria ==
    {Leaf(kind) : kind \in Criteria}
        \cup {set_selections(Leaf("rc"), 1 .. (NMers - 1), 2 .. NMers),
              set_selections(Leaf("typed"), {1}, {1})}

RECURSIVE ListsOf(_, _)
\* the lists of n elements of S
ListsOf(S, n) ==
    IF n = 0 THEN {<< >>}
    ELSE {Append(l, x) : l \in ListsOf(S, n - 1), x \in S}

\* the argument lists of a combinator: 2 .. MaxCriteria sub-criteria
CriteriaLists == UNION {ListsOf(SubCriteria, n) : n \in 2 .. MaxCriteria}

\* the combinators built from one distance criterion alone
BuiltFrom(c) ==
    {NotCriterion(c)}
        \cup UNION {{ContactsConjunction(cs).value,
                     ContactsAlternative(cs).value,
                     ContactsExclusiveDisjunction(cs).value} :
                    cs \in UNION {ListsOf({c}, n) : n \in 2 .. MaxCriteria}}

\* the criteria chained with the infix operators: between them they score
\* a pair 0, 1 and 2
ChainArguments == {Leaf(kind) : kind \in {"rc", "always", "ordered"}}

\* (a | b) | c, (a & b) & c, (a ^ b) ^ c
Chained ==
    UNION {{criterion_or(criterion_or(cs[1], cs[2]), cs[3]),
            criterion_and(criterion_and(cs[1], cs[2]), cs[3]),
            criterion_xor(criterion_xor(cs[1], cs[2]), cs[3])} :
           cs \in ListsOf(ChainArguments, 3)}

\* the criterion objects the constructors give
Constructed ==
    {Leaf(kind) : kind \in Criteria}
        \cup {NotCriterion(c) : c \in SubCriteria}
        \cup {NotCriterion(NotCriterion(c)) : c \in SubCriteria}
        \cup {Leaf("close")} \cup BuiltFrom(Leaf("close"))
        \cup {ContactsConjunction(cs).value : cs \in CriteriaLists}
        \cup {ContactsAlternative(cs).value : cs \in CriteriaLists}
        \cup {ContactsExclusiveDisjunction(cs).value : cs \in CriteriaLists}
        \cup Chained

\* the pairs of selections given to set_selections
SelectionPairs ==
    {<<sel, sel>> : sel \in Selections} \cup {<<1 .. (NMers - 1), 2 .. NMers>>}

\* a constructed criterion, and the structure it will be evaluated on: the
\* whole structure or the sub-structure without its last mer
InitCrit ==
    /\ str_frame = None
    /\ frame = None
    /\ contacts = NoneTable
    /\ sstr1 = Monomers
    /\ sstr2 = NoneStructure
    /\ criterion = "rc"
    /\ max_rc_dist = None
    /\ InitObs
    /\ InitConsumers
    /\ InitLib
    /\ structure_obj \in {Monomers, SubSeq(Monomers, 1, NMers - 1)}
    /\ crit \in Constructed
    /\ result = [exc |-> "not run", matrix |-> zero_matrix]

\* crit.set_selections(selection1, selection2)
SetSelections ==
    /\ result.exc = "not run"
    /\ \E sp \in SelectionPairs : crit' = set_selections(crit, sp[1], sp[2])
    /\ result' = [result EXCEPT !.exc = "selections set"]
    /\ UNCHANGED <<libVars, structure_obj, mapVars, obsVars, concVars>>

\* crit.calculate_contacts(structure_obj)
Evaluate ==
    /\ result.exc \in {"not run", "selections set"}
    /\ result' = criterion_calculate_contacts(crit, structure_obj)
    /\ UNCHANGED <<libVars, crit, structure_obj, mapVars, obsVars, concVars>>

CalcLeaf ==
    /\ crit.type = "leaf"
    /\ Evaluate

CalcNot ==
    /\ crit.type = "not"
    /\ Evaluate

CalcConjunction ==
    /\ crit.type = "and"
    /\ Evaluate

CalcAlternative ==
    /\ crit.type = "or"
    /\ Evaluate

CalcExclusiveDisjunction ==
    /\ crit.type = "xor"
    /\ Evaluate

\* ContactMap(structure, crit).calculate_contacts() for a criterion that
\* scores pairs itself
MapOfCriterion ==
    /\ crit = Leaf(criterion)
    /\ result.exc = "not run"
    /\ contacts = NoneTable
    /\ CalculateContacts

NextCrit ==
    \/ MapOfCriterion
    \/ SetSelections
    \/ CalcLeaf
    \/ CalcNot
    \/ CalcConjunction
    \/ CalcAlternative
    \/ CalcExclusiveDisjunction

SpecCrit == InitCrit /\ [][NextCrit]_vars

(* ----------------------- building combinators ------------------------- *)
\* the argument lists given to a combinator's constructor: none to
\* MaxCriteria criteria
ArgumentLists == UNION {ListsOf(SubCriteria, n) : n \in 0 .. MaxCriteria}

\* no combinator was built: crit is a criterion that scores pairs
InitBuild ==
    /\ str_frame = None
    /\ frame = None
    /\ contacts = NoneTable
    /\ sstr1 = Monomers
    /\ sstr2 = NoneStructure
    /\ criterion = "rc"
    /\ max_rc_dist = None
    /\ InitObs
    /\ InitCritIdle
    /\ InitConsumers
    /\ InitLib

\* crit = Class(*cs), the one construction of a run: crit is bound only
\* when the constructor returns
Construct(name, built, cs) ==
    /\ op = "__init__"
    /\ op' = name
    /\ args' = cs
    /\ ret' = built
    /\ crit' = IF built.exc = "none" THEN built.value ELSE crit
    /\ UNCHANGED <<libVars, structure_obj, result, mapVars, concVars>>
    /\ UNCHANGED <<was_stale, recomputed, invoked, calc_frame>>

NewConjunction ==
    \E cs \in ArgumentLists :
        Construct("ContactsConjunction", ContactsConjunction(cs), cs)

NewAlternative ==
    \E cs \in ArgumentLists :
        Construct("ContactsAlternative", ContactsAlternative(cs), cs)

NewExclusiveDisjunction ==
    \E cs \in ArgumentLists :
        Construct("ContactsExclusiveDisjunction",
                  ContactsExclusiveDisjunction(cs), cs)

NextBuild ==
    \/ NewConjunction
    \/ NewAlternative
    \/ NewExclusiveDisjunction

SpecBuild == InitBuild /\ [][NextBuild]_vars

(* ------------- a MartiniResidue and its last_cs ----------------------- *)
\* the atom sets of coarse-grained residues: any of the beads BB, SC1 ..
BeadSets == SUBSET ({BB} \cup {SC(n) : n \in 1 .. MaxBeads})

\* the state of the map, of the criteria and of the consumers when none of
\* them is used
InitMapIdle ==
    /\ str_frame = None
    /\ frame = None
    /\ contacts = NoneTable
    /\ sstr1 = Monomers
    /\ sstr2 = NoneStructure
    /\ criterion = "rc"
    /\ max_rc_dist = None
    /\ InitObs
    /\ InitCritIdle
    /\ InitConsumers

\* a residue loaded with some set of beads
InitMartini ==
    /\ InitMapIdle
    /\ atoms \in BeadSets
    /\ pdb_mers_list = MonomerResidues
    /\ converter = NumberConverter(MonomerResidues)

\* residue.last_cs
LastCs ==
    /\ op' = "last_cs"
    /\ args' = << >>
    /\ ret' = last_cs(atoms)
    /\ UNCHANGED <<libVars, mapVars, critVars, concVars>>
    /\ UNCHANGED <<was_stale, recomputed, invoked, calc_frame>>

NextMartini == LastCs

SpecMartini == InitMartini /\ [][NextMartini]_vars

(* ------------- a NumberConverter and its lookups ---------------------- *)
\* the lists of up to n residues of S, no residue twice (a chain holds a
\* full residue id once)
RECURSIVE DistinctLists(_, _)
DistinctLists(S, n) ==
    IF n = 0
    THEN {<< >>}
    ELSE LET shorter == DistinctLists(S, n - 1)
         IN  shorter \cup
             UNION {{Append(l, r) : r \in S \ {l[k] : k \in 1 .. Len(l)}} :
                    l \in {x \in shorter : Len(x) = n - 1}}

ResidueLists == DistinctLists(Residues, MaxResidues)

\* the PDB ids a caller may ask for: None, ' ' or a letter as insertion code
PdbIds == {"A"} \X (1 .. MaxResSeq) \X {"None", " ", "B"}

\* converter = NumberConverter(pdb_mers_list=[pdb_mers_list])
InitConverter ==
    /\ InitMapIdle
    /\ atoms = {}
    /\ pdb_mers_list \in ResidueLists
    /\ converter = NumberConverter(pdb_mers_list)

\* a call of the converter
ConverterCall(name, a, r) ==
    /\ op' = name
    /\ args' = a
    /\ ret' = r
    /\ UNCHANGED <<libVars, mapVars, critVars, concVars>>
    /\ UNCHANGED <<was_stale, recomputed, invoked, calc_frame>>

\* converter.get_pdb_id(ind)
GetPdbId ==
    \E ind \in 0 .. (MaxResidues + 1) :
        ConverterCall("get_pdb_id", <<ind>>, get_pdb_id(converter, ind))

\* converter.get_ind(pdb_id)
GetInd ==
    \E pdb_id \in PdbIds :
        ConverterCall("get_ind", <<pdb_id>>,
                      converter_get_ind(converter, pdb_id))

NextConverter ==
    \/ GetPdbId
    \/ GetInd

SpecConverter == InitConverter /\ [][NextConverter]_vars

(* ------------- a map whose pair scoring can fail ---------------------- *)
\* ContactMap.__init__ with a criterion whose scoring fails for some pairs
InitAbort ==
    /\ frame = None
    /\ contacts = NoneTable
    /\ \E sel1 \in Selections, sel2 \in Selections :
         /\ sstr1 = create_structure(sel1, Monomers)
         /\ sstr2 = init_sstr2(create_structure(sel1, Monomers),
                               create_structure(sel2, Monomers))
    /\ criterion = "fragile"
    /\ max_rc_dist \in {None, MaxRcDist}
    /\ str_frame = None
    /\ InitObs
    /\ InitCritIdle
    /\ InitConsumers
    /\ InitLib

NextAbort ==
    \/ LinkTrajectory
    \/ NextFrame
    \/ DisconnectTrajectory
    \/ CalculateContacts
    \/ GetContactValue
    \/ GetMonomerContacts

SpecAbort == InitAbort /\ [][NextAbort]_vars

(* ------------------- what the claims speak about ---------------------- *)
AccessOps == {"get_contact_value", "get_monomer_contacts"}

InSeq(s, m) == \E n \in 1 .. Len(s) : s[n] = m
SeqToSet(s) == {s[n] : n \in 1 .. Len(s)}

\* get_score read off a computed table: the stored score, else 0
Score(t, a, b) == IF DictHas(t[a], b) THEN DictGet(t[a], b) ELSE 0

Dist(f, a, b) == Abs(RcCoord(f, a) - RcCoord(f, b))

\* the score of a pair scoring, a WrongMonomerType counting as 0
ValueOf(r) == IF r.exc = "none" THEN r.value ELSE 0

Symmetric == sstr2 = NoneStructure

Lower(a, b) == IF a < b THEN a ELSE b
Higher(a, b) == IF a < b THEN b ELSE a

\* the score the map is to hold for (a, b) with the coordinates of frame f:
\* the criterion's score of the pair when it is a pair of the selections
\* (taken once, in structure order, when the selections coincide) and a
\* candidate of the pre-filter, else 0
ExpectedScoreOf(kind, f, a, b) ==
    LET near == max_rc_dist = None \/ Dist(f, a, b) <= max_rc_dist
    IN  IF Symmetric
        THEN IF a # b /\ InSeq(sstr1, a) /\ InSeq(sstr1, b) /\ near
             THEN ValueOf(is_in_contact(kind, Lower(a, b), Higher(a, b),
                                        Dist(f, a, b)))
             ELSE 0
        ELSE IF InSeq(sstr1, a) /\ InSeq(sstr2, b) /\ near
             THEN ValueOf(is_in_contact(kind, a, b, Dist(f, a, b)))
             ELSE 0

ExpectedScore(f, a, b) == ExpectedScoreOf(criterion, f, a, b)

ExpectedTriples(f) ==
    {<<a, b, ExpectedScore(f, a, b)>> : a \in Mers, b \in Mers} \
        {<<a, b, 0>> : a \in Mers, b \in Mers}

(* ------------------------------ claims -------------------------------- *)

\* C1: in a map built with identical selections, every computed table holds
\* an entry (i, j) iff it holds the entry (j, i), with the same value, so
\* get_score(i, j) = get_score(j, i); with and without max_rc_dist declared.
C1_SymmetricMap ==
    (Symmetric /\ contacts # NoneTable) =>
        \A i \in Mers, j \in Mers :
            /\ DictHas(contacts[i], j) <=> DictHas(contacts[j], i)
            /\ Score(contacts, i, j) = Score(contacts, j, i)

\* a symmetric map whose scoring depends on the argument order, computed in
\* the pre-filtered branch, holding a mirrored entry
C1_Witness ==
    /\ Symmetric
    /\ criterion = "ordered"
    /\ max_rc_dist # None
    /\ contacts # NoneTable
    /\ Score(contacts, 1, 2) = 2
    /\ Score(contacts, 2, 1) = 2

\* C2: after calculate_contacts no entry (i, i) is stored, whatever the
\* selections and the pair scoring: get_score(i, i) = 0 for every mer.
C2_NoSelfContact ==
    contacts # NoneTable => \A i \in Mers : ~DictHas(contacts[i], i)

\* C3: the first access to a map that was never computed computes the
\* table, whatever Structure.frame is (None included): the accessor hands
\* out a table and the call does not fail (selections that give cdist no
\* points aside).
C3_FirstAccessComputes ==
    (op \in AccessOps /\ ~cdist_fails(sstr1, sstr2)) =>
        /\ contacts # NoneTable
        /\ ret.exc = "none"

\* C4: an access made with a stale cached frame marker recomputes the whole
\* table before it returns: the table and the value returned are those of
\* the structure's current coordinates, and the cached marker is the
\* structure's marker.
C4_StaleAccessRecomputes ==
    (op \in AccessOps /\ was_stale /\ ret.exc = "none") =>
        /\ frame = str_frame
        /\ \A a \in Mers, b \in Mers :
               Score(contacts, a, b) = ExpectedScore(str_frame, a, b)
        /\ op = "get_contact_value" =>
               ret.value = ExpectedScore(str_frame, args[1], args[2])
        /\ op = "get_monomer_contacts" =>
               /\ SeqToSet(ret.value) =
                      {t \in ExpectedTriples(str_frame) : t[1] = args[1]}
               /\ Len(ret.value) = Cardinality(SeqToSet(ret.value))

\* get_score after a frame change, for a pair in contact in frame 0 and out
\* of contact in frame 1
C4_Witness ==
    /\ op = "get_contact_value"
    /\ was_stale
    /\ ret.exc = "none"
    /\ str_frame = 1
    /\ frame = 1
    /\ ExpectedScore(0, args[1], args[2]) > 0
    /\ ret.value = 0

\* C5: iteration is an access under the cache rule: it yields one triple
\* per nonzero entry of the table of the structure's current frame,
\* recomputing first when the cached marker is stale (checked for the stale
\* marker; equal markers on a map never computed are the case of C3).
C5_IterationIsAccess ==
    (op = "__iter__" /\ was_stale /\ ~cdist_fails(sstr1, sstr2)) =>
        /\ ret.exc = "none"
        /\ SeqToSet(ret.value) = ExpectedTriples(str_frame)
        /\ Len(ret.value) = Cardinality(ExpectedTriples(str_frame))

\* the first half of C6: the table the contacts property returns to a
\* consumer is the whole table of the current frame, never one that is
\* still being filled
C6_NoPartialRead ==
    \A p \in Consumers :
        got[p] # NoneTable =>
            \A a \in Mers, b \in Mers :
                Score(got[p], a, b) = ExpectedScore(str_frame, a, b)

\* C6: consumers reading one map while a frame change is pending are
\* serialized: no consumer is handed a table that is only partly filled for
\* the new frame, and no two consumers are inside calculate_contacts at the
\* same time.
C6_SerializedRecompute ==
    /\ C6_NoPartialRead
    /\ \A p \in Consumers, q \in Consumers :
           (p # q) => ~(/\ pc[p] \in {"calculate", "fill"}
                        /\ pc[q] \in {"calculate", "fill"})

\* C7: with max_rc_dist = D declared, calculate_contacts scores a pair only
\* if its rc-distance is <= D, scores the pairs at distance exactly D, and
\* every pair farther apart than D has no entry and get_score 0.
C7_PreFilter ==
    max_rc_dist # None =>
        /\ \A p \in invoked : Dist(calc_frame, p[1], p[2]) <= max_rc_dist
        /\ contacts # NoneTable =>
               /\ \A i \in 1 .. Len(sstr1),
                     j \in 1 .. Len(points2_of(sstr1, sstr2)) :
                      LET m1 == sstr1[i]
                          m2 == points2_of(sstr1, sstr2)[j]
                      IN  (/\ Dist(calc_frame, m1, m2) = max_rc_dist
                           /\ Symmetric => i < j)
                              => <<m1, m2>> \in invoked
               /\ \A a \in Mers, b \in Mers :
                      Dist(calc_frame, a, b) > max_rc_dist
                          => Score(contacts, a, b) = 0
        /\ (/\ op = "get_contact_value"
            /\ ret.exc = "none"
            /\ Dist(str_frame, args[1], args[2]) > max_rc_dist
            /\ calc_frame = str_frame) => ret.value = 0

\* an always-2 criterion declaring max_rc_dist: a pair at exactly that
\* distance is stored, a pair beyond it is not
C7_Witness ==
    /\ max_rc_dist # None
    /\ criterion = "always"
    /\ contacts # NoneTable
    /\ \E a \in Mers, b \in Mers :
           /\ Dist(calc_frame, a, b) = max_rc_dist
           /\ Score(contacts, a, b) = 2
    /\ \E a \in Mers, b \in Mers :
           /\ Dist(calc_frame, a, b) > max_rc_dist
           /\ InSeq(sstr1, a)
           /\ InSeq(points2_of(sstr1, sstr2), b)
           /\ Score(contacts, a, b) = 0

\* a matrix was returned
Returned == result.exc = "none"

\* the matrix a sub-criterion returns on the structure
SubMatrix(k) ==
    criterion_calculate_contacts(crit.criteria[k], structure_obj).matrix

\* C8: a WrongMonomerType raised by a pair scoring never leaves
\* calculate_contacts: not that of the map, not that of a criterion using
\* the generic fill, not that of a combinator over such a criterion.
C8_WrongMonomerTypeAbsorbed ==
    /\ ret.exc # "WrongMonomerType"
    /\ result.exc # "WrongMonomerType"

\* C9: the matrix a criterion returns is nonzero only at entries
\* (m1.ind, m2.ind) with m1 picked by its selection1 and m2 by its
\* selection2 from the structure; every other entry is 0.
C9_OnlySelectedPairs ==
    Returned =>
        \A i \in MatrixInds, j \in MatrixInds :
            result.matrix[i][j] # 0 =>
                /\ InSeq(create_structure(crit.selection1, structure_obj), i)
                /\ InSeq(create_structure(crit.selection2, structure_obj), j)

\* C10: the matrix of a ContactsConjunction holds, at every pair of
\* indices, the least of the sub-criteria's scores there: 2 only if all are
\* 2, 0 if any is 0 (an entry a sub-criterion left unscored is 0), else 1;
\* for two sub-criteria and for more.
C10_ConjunctionIsMinimum ==
    (crit.type = "and" /\ Returned) =>
        \A i \in MatrixInds, j \in MatrixInds :
            LET subs == {SubMatrix(k)[i][j] : k \in 1 .. Len(crit.criteria)}
            IN  /\ result.matrix[i][j] \in subs
                /\ \A v \in subs : result.matrix[i][j] <= v
                /\ result.matrix[i][j] = 2 <=> subs = {2}
                /\ result.matrix[i][j] = 0 <=> 0 \in subs

\* a conjunction of three criteria whose matrix holds a 2, a 1 (the
\* sub-criteria scoring 2, 1, 2) and a 0 where one sub-criterion left the
\* pair unscored
C10_Witness ==
    /\ crit.type = "and"
    /\ Len(crit.criteria) = MaxCriteria
    /\ Returned
    /\ \E i \in MatrixInds, j \in MatrixInds : result.matrix[i][j] = 2
    /\ \E i \in MatrixInds, j \in MatrixInds :
           /\ result.matrix[i][j] = 1
           /\ \E k \in 1 .. Len(crit.criteria) : SubMatrix(k)[i][j] = 2
    /\ \E i \in MatrixInds, j \in MatrixInds :
           /\ result.matrix[i][j] = 0
           /\ \E k \in 1 .. Len(crit.criteria) : SubMatrix(k)[i][j] = 2
           /\ \E k \in 1 .. Len(crit.criteria) : SubMatrix(k)[i][j] = 1

\* how many of the sub-criteria score v at entry (i, j)
CountOf(i, j, v) ==
    Cardinality({k \in 1 .. Len(crit.criteria) : SubMatrix(k)[i][j] = v})

\* C11: the matrix of a ContactsAlternative holds, at every pair of
\* indices, the greatest of the sub-criteria's scores there: 2 if any is 2,
\* 0 only if all are 0, else 1; for two sub-criteria and for more.
C11_AlternativeIsMaximum ==
    (crit.type = "or" /\ Returned) =>
        \A i \in MatrixInds, j \in MatrixInds :
            LET subs == {SubMatrix(k)[i][j] : k \in 1 .. Len(crit.criteria)}
            IN  /\ result.matrix[i][j] \in subs
                /\ \A v \in subs : result.matrix[i][j] >= v
                /\ result.matrix[i][j] = 2 <=> 2 \in subs
                /\ result.matrix[i][j] = 0 <=> subs = {0}

\* an alternative of three criteria whose matrix holds a 2 where another
\* sub-criterion scored 1, a 1 where another sub-criterion scored 0, and a 0
C11_Witness ==
    /\ crit.type = "or"
    /\ Len(crit.criteria) = MaxCriteria
    /\ Returned
    /\ \E i \in MatrixInds, j \in MatrixInds :
           /\ result.matrix[i][j] = 2
           /\ CountOf(i, j, 1) > 0
    /\ \E i \in MatrixInds, j \in MatrixInds :
           /\ result.matrix[i][j] = 1
           /\ CountOf(i, j, 0) > 0
    /\ \E i \in MatrixInds, j \in MatrixInds : result.matrix[i][j] = 0

\* the criterion a NotCriterion wraps
Wrapped(c) == c.criteria[1]

\* C12: the matrix of a NotCriterion holds 2 - s at every entry where the
\* wrapped criterion scores s (0 becomes 2, 2 becomes 0, 1 stays 1), and
\* the matrix of NotCriterion(NotCriterion(A)) is the matrix of A.
C12_NegationInvolution ==
    (crit.type = "not" /\ Returned) =>
        /\ \A i \in MatrixInds, j \in MatrixInds :
               /\ result.matrix[i][j] = 2 - SubMatrix(1)[i][j]
               /\ SubMatrix(1)[i][j] = 1 => result.matrix[i][j] = 1
        /\ Wrapped(crit).type = "not" =>
               result.matrix =
                   criterion_calculate_contacts(Wrapped(Wrapped(crit)),
                                                structure_obj).matrix

\* a double negation of a criterion whose matrix holds a 2, a 1 and a 0
C12_Witness ==
    /\ crit.type = "not"
    /\ Wrapped(crit).type = "not"
    /\ Returned
    /\ \E i \in MatrixInds, j \in MatrixInds : result.matrix[i][j] = 2
    /\ \E i \in MatrixInds, j \in MatrixInds : result.matrix[i][j] = 1
    /\ \E i \in MatrixInds, j \in MatrixInds : result.matrix[i][j] = 0

\* C13: the matrix of a ContactsExclusiveDisjunction holds a 2 only where
\* exactly one sub-criterion scored 2: where none did, or two or more did,
\* the entry is not 2.
C13_XorTwoOnlyIfOneTwo ==
    (crit.type = "xor" /\ Returned) =>
        \A i \in MatrixInds, j \in MatrixInds :
            result.matrix[i][j] = 2 => CountOf(i, j, 2) = 1

\* an exclusive disjunction with an entry 2 (one sub-criterion scored 2, the
\* others 0) and an entry where two sub-criteria scored 2, which is not 2
C13_Witness ==
    /\ crit.type = "xor"
    /\ Returned
    /\ \E i \in MatrixInds, j \in MatrixInds :
           /\ result.matrix[i][j] = 2
           /\ CountOf(i, j, 2) = 1
    /\ \E i \in MatrixInds, j \in MatrixInds :
           /\ CountOf(i, j, 2) >= 2
           /\ result.matrix[i][j] # 2

\* C14: the matrix of a ContactsExclusiveDisjunction holds a 1 where exactly
\* one sub-criterion scored 1, and where more than one sub-criterion scored
\* 2.
C14_XorUncertain ==
    (crit.type = "xor" /\ Returned) =>
        \A i \in MatrixInds, j \in MatrixInds :
            (CountOf(i, j, 1) = 1 \/ CountOf(i, j, 2) > 1)
                => result.matrix[i][j] = 1

\* the pairs of mers of the evaluated structure that criterion kind scores s
PairsScored(kind, s) ==
    {p \in SeqToSet(structure_obj) \X SeqToSet(structure_obj) :
        calculate_contact(kind, p[1], p[2]) = Ok(s)}

\* a conjunction, alternative or exclusive disjunction of copies of c
CopiesOf(c) ==
    /\ crit.type \in {"and", "or", "xor"}
    /\ \A k \in 1 .. Len(crit.criteria) : crit.criteria[k] = c

\* the second half of C15: under a distance criterion whose cutoff is not
\* below the distance of a pair, get_score of the pair is nonzero
C15_WithinCutoffNonzero ==
    /\ (crit = Leaf("rc") /\ Returned) =>
           \A i \in MatrixInds, j \in MatrixInds :
               (/\ InSeq(structure_obj, i)
                /\ InSeq(structure_obj, j)
                /\ Dist(None, i, j) <= MaxRcDist) => result.matrix[i][j] # 0
    /\ (criterion = "rc" /\ max_rc_dist = None /\ contacts # NoneTable) =>
           \A a \in Mers, b \in Mers :
               (/\ a # b
                /\ InSeq(sstr1, a)
                /\ InSeq(points2_of(sstr1, sstr2), b)
                /\ Dist(calc_frame, a, b) <= MaxRcDist)
                   => Score(contacts, a, b) # 0

\* C15: where a distance criterion scores 0 for a pair (the cutoff below
\* the distance), every combinator built from that criterion alone, the
\* negation included, scores 0 for the pair; with a cutoff not below the
\* distance get_score of the pair is nonzero.
C15_AllCombinatorsZero ==
    /\ ((CopiesOf(Leaf("close")) \/ crit = NotCriterion(Leaf("close")))
            /\ Returned) =>
           \A p \in PairsScored("close", 0) : result.matrix[p[1]][p[2]] = 0
    /\ C15_WithinCutoffNonzero

\* C15 as the code has it: the conjunction, the alternative and the
\* exclusive disjunction of the criterion score 0 for such a pair, its
\* negation scores 2; with a cutoff not below the distance get_score of the
\* pair is nonzero.
C15_CombinatorsOfZero ==
    /\ (CopiesOf(Leaf("close")) /\ Returned) =>
           \A p \in PairsScored("close", 0) : result.matrix[p[1]][p[2]] = 0
    /\ (crit = NotCriterion(Leaf("close")) /\ Returned) =>
           \A p \in PairsScored("close", 0) : result.matrix[p[1]][p[2]] = 2
    /\ C15_WithinCutoffNonzero

\* the negation of the criterion was evaluated on a structure with a pair
\* beyond the cutoff, which the negation scores 2
C15_Witness ==
    /\ crit = NotCriterion(Leaf("close"))
    /\ Returned
    /\ \E p \in PairsScored("close", 0) : result.matrix[p[1]][p[2]] = 2

\* the scores stored in the table
StoredValues ==
    UNION {{contacts[m][n][2] : n \in 1 .. Len(contacts[m])} : m \in Mers}

\* C16: with a pair scoring in {0, 1, 2}, after any sequence of
\* computations and frame changes every stored entry of the map is 1 or 2
\* (a 0 is never stored) and get_score returns a value in {0, 1, 2}.
C16_ScoreRange ==
    /\ contacts # NoneTable =>
           /\ \A m \in Mers : \A n \in 1 .. Len(contacts[m]) :
                  contacts[m][n][2] \in {1, 2}
           /\ \A a \in Mers, b \in Mers : Score(contacts, a, b) \in {0, 1, 2}
    /\ (op = "get_contact_value" /\ ret.exc = "none") =>
           ret.value \in {0, 1, 2}

\* a table recomputed after a frame change, holding entries, in which a
\* pair that was scored 0 has no entry
C16_Witness ==
    /\ contacts # NoneTable
    /\ calc_frame = MaxFrame
    /\ StoredValues # {}
    /\ \E p \in invoked :
           /\ is_in_contact(criterion, p[1], p[2],
                            Dist(calc_frame, p[1], p[2])) = Ok(0)
           /\ ~DictHas(contacts[p[1]], p[2])

\* the entries stored for mer a, as get_contacts is to return them
StoredTriples(a) ==
    {<<a, b, Score(contacts, a, b)>> : b \in {n \in Mers : DictHas(contacts[a], n)}}

\* C17: once the table is computed, get_score(a, b) of two members of the
\* structure returns the stored score of (a, b), or 0 when none is stored,
\* and does not fail; get_contacts(a) returns exactly the stored entries of
\* a as (a, other index, score), each once, and the empty sequence for a mer
\* without contacts.
C17_ReadsStoredEntries ==
    /\ (op = "get_contact_value" /\ contacts # NoneTable) =>
           /\ ret.exc = "none"
           /\ DictHas(contacts[args[1]], args[2]) =>
                  ret.value = DictGet(contacts[args[1]], args[2])
           /\ ~DictHas(contacts[args[1]], args[2]) => ret.value = 0
    /\ (op = "get_monomer_contacts" /\ contacts # NoneTable) =>
           /\ ret.exc = "none"
           /\ SeqToSet(ret.value) = StoredTriples(args[1])
           /\ Len(ret.value) = Cardinality(StoredTriples(args[1]))
           /\ Len(contacts[args[1]]) = 0 => ret.value = << >>

\* get_score of a pair without a stored entry returned 0 from a table that
\* holds entries
C17_Witness ==
    /\ op = "get_contact_value"
    /\ contacts # NoneTable
    /\ StoredValues # {}
    /\ ~DictHas(contacts[args[1]], args[2])
    /\ args[1] # args[2]
    /\ ret = Ok(0)

\* an external id that the numbering does not hold, with either spelling of
\* the empty insertion code
Unrecognized(ref) ==
    /\ ref[1] = "pdb"
    /\ \/ ref[4] \notin {"None", " "}
       \/ ref[2] # "A"
       \/ ref[3] \notin Mers

MerOf(ref) == ref[3]

\* the scores the sub-criteria of the map's alternative give a pair
SubScoresOf(f, a, b) ==
    [k \in 1 .. Len(alternative_criteria) |->
        ExpectedScoreOf(alternative_criteria[k], f, a, b)]

\* whether the pair is in contact under the criterion of the map
InContact(f, a, b) ==
    IF criterion = "alternative"
    THEN \E k \in 1 .. Len(alternative_criteria) : SubScoresOf(f, a, b)[k] > 0
    ELSE ExpectedScore(f, a, b) > 0

\* the first sub-criterion, in construction order, that scores the pair
\* nonzero
FirstValidating(f, a, b) ==
    alternative_criteria[CHOOSE k \in 1 .. Len(alternative_criteria) :
        /\ SubScoresOf(f, a, b)[k] > 0
        /\ \A n \in 1 .. (k - 1) : SubScoresOf(f, a, b)[n] = 0]

\* C19: get_validating_criterion(a, b) returns None exactly when the pair
\* is not in contact; for a pair in contact under an Alternative it returns
\* the first sub-criterion, in construction order, that scores the pair
\* nonzero, and under any other criterion that criterion (checked for a
\* stale marker, so that the table is recomputed for the call).
C19_ValidatingCriterion ==
    (/\ op = "get_contact_criterion"
     /\ was_stale
     /\ ~cdist_fails(sstr1, sstr2)) =>
        LET a == MerOf(args[1])
            b == MerOf(args[2])
        IN  /\ ret.exc = "none"
            /\ ret.value = NoCriterion <=> ~InContact(str_frame, a, b)
            /\ InContact(str_frame, a, b) =>
                   ret.value = IF criterion = "alternative"
                               THEN FirstValidating(str_frame, a, b)
                               ELSE criterion

\* the part of C19 about a criterion that is no Alternative
C19_OtherCriterionItself ==
    criterion # "alternative" => C19_ValidatingCriterion

\* the constructors of the combinators and the type of object each builds
Constructors ==
    {"ContactsConjunction", "ContactsAlternative",
     "ContactsExclusiveDisjunction"}

TypeBuiltBy(name) ==
    CASE name = "ContactsConjunction" -> "and"
      [] name = "ContactsAlternative" -> "or"
      [] OTHER -> "xor"

\* C20: a Conjunction, Alternative or ExclusiveDisjunction given fewer than
\* two sub-criteria fails at construction (AttributeError) and no combinator
\* comes to be; given two or more it is built and holds them in the order
\* given.
C20_AtLeastTwoCriteria ==
    op \in Constructors =>
        /\ Len(args) < 2 =>
               /\ ret.exc = "AttributeError"
               /\ ~(crit.type = TypeBuiltBy(op) /\ crit.criteria = args)
        /\ Len(args) >= 2 =>
               /\ ret.exc = "none"
               /\ crit = ret.value
               /\ crit.type = TypeBuiltBy(op)
               /\ crit.criteria = args

\* an alternative of a single criterion was refused: nothing was bound
C20_Witness ==
    /\ op = "ContactsAlternative"
    /\ Len(args) = 1
    /\ ret.exc = "AttributeError"
    /\ crit.type = "leaf"

\* the contacts of the table: the unordered pairs of mers with a stored
\* entry in either direction
ContactPairs ==
    UNION {{{a, b} : b \in {n \in Mers : DictHas(contacts[a], n)}} : a \in Mers}

\* C21: dump writes exactly one line id1 TAB id2 TAB score per contact
\* (unordered pair of mers in contact) of the table of the structure's
\* current frame, the score being get_score of the pair, and has closed the
\* sink when it returns (checked for a stale marker, so that the table is
\* recomputed for the call).
C21_DumpOneLinePerContact ==
    (op = "dump" /\ was_stale /\ ~cdist_fails(sstr1, sstr2)) =>
        /\ ret.exc = "none"
        /\ ret.value.closed
        /\ frame = str_frame
        /\ Len(ret.value.lines) = Cardinality(ContactPairs)
        /\ \A n \in 1 .. Len(ret.value.lines) :
               \E a \in Mers, b \in Mers :
                   /\ ret.value.lines[n][1] = pid(a)
                   /\ ret.value.lines[n][2] = pid(b)
                   /\ ret.value.lines[n][3] = Score(contacts, a, b)
                   /\ Score(contacts, a, b) = ExpectedScore(str_frame, a, b)
                   /\ Score(contacts, a, b) > 0
        /\ \A pair \in ContactPairs :
               \E n \in 1 .. Len(ret.value.lines) :
                   {ret.value.lines[n][1], ret.value.lines[n][2]}
                       = {pid(a) : a \in pair}

\* C22: a table left by calculate_contacts is a function of the
\* coordinates of the frame, the selections and the criterion alone: it
\* holds the scores of that frame whatever table an earlier computation
\* left, so a second computation on an unchanged structure gives the same
\* table.
C22_RecomputationFromScratch ==
    (op = "calculate_contacts" /\ ret.exc = "none") =>
        /\ \A a \in Mers, b \in Mers :
               Score(contacts, a, b) = ExpectedScore(str_frame, a, b)
        /\ contacts = calculate_contacts(contacts, criterion, str_frame, sstr1,
                                         sstr2, max_rc_dist).contacts

\* an explicit computation in frame 1 over the table an access left for
\* frame 0: a pair in contact in frame 0 only has no entry
C22_Witness ==
    /\ op = "calculate_contacts"
    /\ ret.exc = "none"
    /\ frame = 0
    /\ str_frame = 1
    /\ \E a \in Mers, b \in Mers :
           /\ ExpectedScore(0, a, b) > 0
           /\ Score(contacts, a, b) = 0

\* C24: an access through get_score / get_contacts computes the table
\* exactly when the cached frame marker differs from the structure's marker
\* at the time of the access; an access that follows an access that
\* returned, with no step in between, computes nothing and is served the
\* same table.
C24_FrameMarkerSoleRule ==
    [][/\ op' \in AccessOps => (recomputed' <=> frame # str_frame)
       /\ (op \in AccessOps /\ ret.exc = "none" /\ op' \in AccessOps) =>
              (~recomputed' /\ contacts' = contacts /\ frame' = frame)]_vars

\* an access served from the table computed for the current frame of a
\* trajectory, without a computation
C24_Witness ==
    /\ op \in AccessOps
    /\ ret.exc = "none"
    /\ ~recomputed
    /\ ~was_stale
    /\ frame # None
    /\ frame = str_frame
    /\ calc_frame = str_frame
    /\ StoredValues # {}

\* C25: in a map whose selections give different mer lists L1 and L2 the
\* criterion is given (m1 of L1, m2 of L2) pairs only, and every entry of
\* the table is the positive score of such a pair stored as (m1, m2): a
\* mirrored entry (m2, m1) exists only where (m2, m1) is itself an
\* (L1, L2) pair with a positive score; with and without max_rc_dist, and
\* with an empty L2, for which nothing is evaluated or recorded.
C25_AsymmetricPairsOnly ==
    ~Symmetric =>
        /\ invoked \subseteq SeqToSet(sstr1) \X SeqToSet(sstr2)
        /\ contacts # NoneTable =>
               \A a \in Mers, b \in Mers :
                   DictHas(contacts[a], b) =>
                       /\ InSeq(sstr1, a)
                       /\ InSeq(sstr2, b)
                       /\ is_in_contact(criterion, a, b, Dist(calc_frame, a, b))
                              = Ok(DictGet(contacts[a], b))
        /\ sstr2 = << >> => (invoked = {} /\ contacts = NoneTable)

\* a computed table of different selections with an entry for two mers of
\* the first selection and no mirrored entry
C25_Witness ==
    /\ ~Symmetric
    /\ contacts # NoneTable
    /\ \E a \in Mers, b \in Mers :
           /\ InSeq(sstr1, a)
           /\ InSeq(sstr1, b)
           /\ DictHas(contacts[a], b)
           /\ ~DictHas(contacts[b], a)

\* a map whose second selection picks no mer, after a call of
\* calculate_contacts
C25_WitnessEmpty ==
    /\ sstr2 = << >>
    /\ op = "calculate_contacts"

\* the rc-distances two mers can be at
Distances ==
    {Dist(f, a, b) : f \in Frames \cup {None}, a \in Mers, b \in Mers}

\* a criterion that scores 0 for every pair farther apart than D
ZeroBeyond(kind, D) ==
    \A m1 \in Mers, m2 \in Mers, d \in Distances :
        d > D => ValueOf(is_in_contact(kind, m1, m2, d)) = 0

\* C26: for a criterion that scores 0 for every pair beyond D, the table
\* computed with max_rc_dist = D declared holds the same entries as the
\* table computed for the same frame, selections and criterion with no
\* max_rc_dist declared.
C26_PreFilterTransparent ==
    (/\ max_rc_dist # None
     /\ ZeroBeyond(criterion, max_rc_dist)
     /\ contacts # NoneTable) =>
        \E full \in {calculate_contacts(NoneTable, criterion, calc_frame, sstr1,
                                        sstr2, None)} :
            /\ full.exc = "none"
            /\ \A a \in Mers, b \in Mers :
                   /\ DictHas(contacts[a], b) <=> DictHas(full.contacts[a], b)
                   /\ Score(contacts, a, b) = Score(full.contacts, a, b)

\* a table computed with max_rc_dist declared, for a criterion scoring 0
\* beyond it: it holds a pair at exactly that distance, and the pre-filter
\* has kept a pair of the selections from the criterion
C26_Witness ==
    /\ max_rc_dist # None
    /\ criterion = "rc"
    /\ ZeroBeyond(criterion, max_rc_dist)
    /\ contacts # NoneTable
    /\ \E a \in Mers, b \in Mers :
           /\ Dist(calc_frame, a, b) = max_rc_dist
           /\ Score(contacts, a, b) > 0
    /\ \E i \in 1 .. Len(sstr1), j \in 1 .. Len(points2_of(sstr1, sstr2)) :
           /\ i < j
           /\ Dist(calc_frame, sstr1[i], points2_of(sstr1, sstr2)[j])
                  > max_rc_dist
           /\ <<sstr1[i], points2_of(sstr1, sstr2)[j]>> \notin invoked

\* C27: calculate_contacts returns a square matrix of the dimension of the
\* parent numbering's maximum index, and every mer index of the structure,
\* the maximum index included, is a row and a column of it: the entry
\* (m1.ind, m2.ind) written by the generic fill is never outside the matrix.
C27_EveryIndInsideMatrix ==
    (crit.type = "leaf" /\ result.exc \notin {"not run", "selections set"}) =>
        /\ result.exc # "IndexError"
        /\ result.exc = "none" =>
               /\ DOMAIN result.matrix = 0 .. (get_max_ind - 1)
               /\ \A i \in DOMAIN result.matrix :
                      DOMAIN result.matrix[i] = 0 .. (get_max_ind - 1)
               /\ SeqToSet(structure_obj) \subseteq DOMAIN result.matrix

\* the residue with backbone bead and side-chain beads SC1 .. SCk
BeadsUpTo(k) == {BB} \cup {SC(n) : n \in 1 .. k}

\* C23: for a residue whose atoms are BB and SC1 .. SCk, last_cs is SCk,
\* and BB when k = 0.
C23_LastSideChainBead ==
    \A k \in 0 .. MaxBeads :
        (op = "last_cs" /\ atoms = BeadsUpTo(k)) =>
            ret = Ok(IF k = 0 THEN BB ELSE SC(k))

\* last_cs of a residue with two side-chain beads
C23_Witness ==
    /\ op = "last_cs"
    /\ atoms = BeadsUpTo(2)
    /\ ret = Ok(SC(2))

\* last_cs of a residue with the backbone bead only
C23_WitnessBackbone ==
    /\ op = "last_cs"
    /\ atoms = {BB}
    /\ ret = Ok(BB)

\* C28: the converter of a single model numbers the non-water residues
\* 1 .. N in order, and its lookups are inverse to each other: get_ind of
\* the id that get_pdb_id gave for an ind is that ind, and get_pdb_id of
\* the ind that get_ind gave for a known id is that id.
C28_LookupsInverse ==
    /\ DOMAIN converter.dict_ind_to_pdb
           = 1 .. Len(SelectSeq(pdb_mers_list, is_not_water))
    /\ \A i \in DOMAIN converter.dict_ind_to_pdb :
           converter.dict_ind_to_pdb[i]
               = from_pdb_residue(SelectSeq(pdb_mers_list, is_not_water)[i])
    /\ (op = "get_pdb_id" /\ ret.exc = "none") =>
           converter_get_ind(converter, ret.value) = Ok(args[1])
    /\ (/\ op = "get_ind"
        /\ ret.exc = "none"
        /\ args[1] \in DOMAIN converter.dict_pdb_to_ind) =>
           get_pdb_id(converter, ret.value) = Ok(args[1])

\* a criterion (a op b) op c built with one infix operator
IsChained(c) ==
    /\ c.type \in {"and", "or", "xor"}
    /\ Len(c.criteria) = 2
    /\ c.criteria[1].type = c.type
    /\ Len(c.criteria[1].criteria) = 2
    /\ c.criteria[2].type = "leaf"

\* the combinator of the same kind over a, b, c at once
Flat(c) ==
    LET cs == <<c.criteria[1].criteria[1], c.criteria[1].criteria[2],
                c.criteria[2]>>
    IN  IF c.type = "and" THEN ContactsConjunction(cs).value
        ELSE IF c.type = "or" THEN ContactsAlternative(cs).value
        ELSE ContactsExclusiveDisjunction(cs).value

ChainedAsFlat ==
    \E flat \in {criterion_calculate_contacts(Flat(crit), structure_obj)} :
        /\ result.exc = flat.exc
        /\ result.exc = "none" => result.matrix = flat.matrix

\* C29: a criterion chained with one infix operator scores every pair as
\* the combinator of the same kind over the three criteria at once:
\* (a | b) | c as ContactsAlternative(a, b, c), (a & b) & c as
\* ContactsConjunction(a, b, c), (a ^ b) ^ c as
\* ContactsExclusiveDisjunction(a, b, c).
C29_ChainedAsNary ==
    (IsChained(crit) /\ result.exc \notin {"not run", "selections set"}) =>
        ChainedAsFlat

\* the same for | and & alone
C29_ChainedAndOr ==
    (/\ IsChained(crit)
     /\ crit.type \in {"and", "or"}
     /\ result.exc \notin {"not run", "selections set"}) => ChainedAsFlat

\* the error of a pair scoring that is not WrongMonomerType
ScoringErrors == {"ZeroDivisionError"}

\* C30: when a pair scoring aborts a computation with an error other than
\* WrongMonomerType, the cached frame marker stays as it was, and the
\* access that follows computes the table anew instead of being served the
\* partly filled one.
C30_AbortedTableNotServed ==
    [][/\ ret'.exc \in ScoringErrors => frame' = frame
       /\ (/\ op \in AccessOps \cup {"calculate_contacts"}
           /\ ret.exc \in ScoringErrors
           /\ op' \in AccessOps) => recomputed']_vars

\* the first half alone: an aborted computation leaves the marker alone
C30_MarkerUnchanged ==
    [][ret'.exc \in ScoringErrors => frame' = frame]_vars

\* an access whose computation was aborted after a first pair was stored
C30_AbortReached ==
    /\ op \in AccessOps
    /\ ret.exc \in ScoringErrors
    /\ recomputed
    /\ contacts # NoneTable
    /\ StoredValues # {}

====
